---------------------------- MODULE Spec2Model ----------------------------
(***************************************************************************)
(* A model of the proj_factors_redux QGIS plugin: the grid generator, the  *)
(* coordinate transformer, the factor calculators, the raster packer, the  *)
(* band-naming patch and the plugin shell.                                 *)
(*                                                                         *)
(* Numbers.  Extent coordinates and step sizes are integers counting a     *)
(* fixed binary fraction u of a map unit (read u = 1/2: the test extent    *)
(* (-1.5, -2.5, 2.5, 0.5) with cell size 1 is (-3, -5, 5, 1) with step 2). *)
(* create_points multiplies the step by 0.5, so point coordinates are kept *)
(* in units of u/2.  On such values Python's binary64 arithmetic is exact, *)
(* so the integer arithmetic below computes what the code computes; the    *)
(* rounding of binary64 on other values is outside the model.              *)
(*                                                                         *)
(* Python objects are records with a "tag" field, None included.           *)
(***************************************************************************)
EXTENDS Integers, Sequences, FiniteSets, TLC

\* ------------------------------------------------------------------ bounds
MaxW == 8
MaxH == 6
MaxStep == 4
MaxLen == 3
MaxGridPoints == 3

\* --------------------------------------------------------- python helpers
None == [tag |-> "None"]
NaN == [tag |-> "nan"]
NoExc == "none"

Point(x, y) == [tag |-> "pt", x |-> x, y |-> y]

RECURSIVE Reversed(_)
Reversed(s) == IF s = <<>> THEN <<>> ELSE Append(Reversed(Tail(s)), Head(s))

RECURSIVE Flatten(_)
Flatten(ss) == IF ss = <<>> THEN <<>> ELSE Head(ss) \o Flatten(Tail(ss))

SeqsUpTo(S, n) == UNION {[1..k -> S] : k \in 0..n}

\* Python's round(w / s) for integers w >= 0, s > 0: to the nearest integer,
\* a tie going to the even one.
PyRound(w, s) ==
    LET q == w \div s
        r == w % s
    IN  IF 2 * r < s THEN q
        ELSE IF 2 * r > s THEN q + 1
        ELSE IF q % 2 = 0 THEN q ELSE q + 1

\* ------------------------------------------------------------- QgsRectangle
Rect(xMin, yMin, xMax, yMax) ==
    [xMin |-> xMin, yMin |-> yMin, xMax |-> xMax, yMax |-> yMax]

Width(extent) == extent.xMax - extent.xMin
Height(extent) == extent.yMax - extent.yMin

\* The extent of the tests, 4 wide and 3 high, with its cell size.
EXTENT == Rect(-3, -5, 5, 1)
CELLSIZE == 2

XOrigins == {EXTENT.xMin, 0}
YOrigins == {EXTENT.yMin, 0}

Extents ==
    {Rect(x, y, x + w, y + h) : x \in XOrigins, y \in YOrigins,
                                w \in 0..MaxW, h \in 0..MaxH}
StepSizes == 1..MaxStep

\* ------------------------------------------------------------ create_points
\* frange(start, stop, step): start + i * step for i = 0, 1, ... while it is
\* below stop.
RECURSIVE FrangeFrom(_, _, _, _)
FrangeFrom(start, stop, step, i) ==
    IF start + i * step < stop
    THEN <<start + i * step>> \o FrangeFrom(start, stop, step, i + 1)
    ELSE <<>>

frange(start, stop, step) == FrangeFrom(start, stop, step, 0)

\* The columns started on the xMin edge itself, the half step forgotten.
GridXs_NoInset(extent, step_size) ==
    frange(2 * extent.xMin, 2 * extent.xMax, 2 * step_size)

\* Coordinates in units of u/2: xMinimum + step_size * 0.5 is 2 * xMin + step.
GridXs(extent, step_size) ==
    frange(2 * extent.xMin + step_size, 2 * extent.xMax, 2 * step_size)

GridYsAscending(extent, step_size) ==
    frange(2 * extent.yMin + step_size, 2 * extent.yMax, 2 * step_size)

\* The rows left in frange's order, bottom to top.
GridYs_NotReversed(extent, step_size) == GridYsAscending(extent, step_size)

GridYs(extent, step_size) == Reversed(GridYsAscending(extent, step_size))

GridRow(xs, y) == [i \in 1..Len(xs) |-> Point(xs[i], y)]

\* The nested loops: from y max to y min, and x min to x max within a row.
GridPoints(extent, step_size) ==
    LET xs == GridXs(extent, step_size)
        ys == GridYs(extent, step_size)
    IN  Flatten([j \in 1..Len(ys) |-> GridRow(xs, ys[j])])

\* cols taken from the height of the extent.
GridCols_FromHeight(extent, step_size) == PyRound(Height(extent), step_size)

GridCols(extent, step_size) == PyRound(Width(extent), step_size)
GridRows(extent, step_size) == PyRound(Height(extent), step_size)

create_points(extent, step_size) ==
    LET pts == GridPoints(extent, step_size)
        c == GridCols(extent, step_size)
        r == GridRows(extent, step_size)
    IN  [exc |-> IF r * c = Len(pts) THEN NoExc ELSE "AssertionError",
         points |-> pts, cols |-> c, rows |-> r]

\* ------------------------------------------------ coordinate reference systems
Crs(authid, geographic) ==
    [tag |-> "crs", authid |-> authid, isGeographic |-> geographic]

CRS_WGS84 == Crs("EPSG:4326", TRUE)
CRS_ETRS89 == Crs("EPSG:4258", TRUE)
CRS_UTM32N == Crs("EPSG:25832", FALSE)

CrsSet == {CRS_WGS84, CRS_ETRS89, CRS_UTM32N}

\* Geographic sample points in degrees: one inside the valid range, one on each
\* edge of it, one beyond it.
GeoPoints ==
    {Point(10, 53), Point(180, 53), Point(-180, 53), Point(10, 90),
     Point(10, -90), Point(200, 53)}

\* --------------------------------------------------------- transform_points
QgsCsException == [tag |-> "QgsCsException"]

\* What QgsCoordinateTransform.transform does with one point is the engine's
\* business: it raises QgsCsException or returns a point.
TransformOutcomes ==
    {QgsCsException, Point(10, 53), Point(180, 53), Point(10, 90)}

Range(s) == {s[i] : i \in 1..Len(s)}

\* A projection whose valid area ends at x = limit ("off world" beyond it)
\* and whose rows from y = pole on land on the pole.
OffWorld(points, limit, pole) ==
    [p \in Range(points) |->
        IF p.x > limit THEN QgsCsException
        ELSE IF p.y >= pole THEN Point(10, 90)
        ELSE Point(10, 53)]

MaxOf(S) == CHOOSE v \in S : \A w \in S : w <= v
MinOf(S) == CHOOSE v \in S : \A w \in S : v <= w

\* Every behaviour of the engine on a few points; on a large grid the
\* projections above, its top row on the pole: all of the grid valid, or only
\* its first column.
Transforms(points) ==
    IF Cardinality(Range(points)) <= MaxGridPoints
    THEN [Range(points) -> TransformOutcomes]
    ELSE LET xs == {p.x : p \in Range(points)}
             ys == {p.y : p \in Range(points)}
         IN  {OffWorld(points, limit, pole) :
                 limit \in {MinOf(xs), MaxOf(xs)}, pole \in {MaxOf(ys)}}

\* One pass of the loop body: try / except QgsCsException / append.
TransformOne(coordinate_transform, point) ==
    IF coordinate_transform[point] = QgsCsException
    THEN None
    ELSE coordinate_transform[point]

\* The append moved into the try block: a failed point leaves no entry.
transform_points_Skipping(points, coordinate_transform) ==
    LET Transformed(point) == coordinate_transform[point] # QgsCsException
        kept == SelectSeq(points, Transformed)
    IN  [i \in 1..Len(kept) |-> coordinate_transform[kept[i]]]

transform_points(points, coordinate_transform) ==
    [i \in 1..Len(points) |-> TransformOne(coordinate_transform, points[i])]

\* ----------------------------------------------------------- factor objects
QgsFactors(point) == [tag |-> "QgsProjectionFactors", at |-> point]
PyprojFactors(point) == [tag |-> "pyproj.Factors", at |-> point]

Float(factor, at) == [tag |-> "float", factor |-> factor, at |-> at]
BoundMethod(factor, at) == [tag |-> "method", factor |-> factor, at |-> at]

\* descriptions as in the source, with the Greek letters spelled out
PROJECTION_FACTORS_QGIS ==
    << <<"angularDistortion", "Angular Distortion">>,
       <<"arealScale", "Areal Scale">>,
       <<"dxDlam", "Partial derivative dx/dlam">>,
       <<"dxDphi", "Partial derivative dx/dphi">>,
       <<"dyDlam", "Partial derivative dy/dlam">>,
       <<"dyDphi", "Partial derivative dy/dphi">>,
       <<"meridianConvergence", "Meridian Convergence (aka Grid Declination) (in degrees)">>,
       <<"meridianParallelAngle", "Meridian Parallel Angle (in degrees)">>,
       <<"meridionalScale", "Meridional Scale">>,
       <<"parallelScale", "Parallel Scale">>,
       <<"tissotSemimajor", "Maximum scale factor (Tissot Semimajor)">>,
       <<"tissotSemiminor", "Minimum scale factor (Tissot Semiminor)">> >>

PROJECTION_FACTORS_PYPROJ ==
    << <<"angular_distortion", "Angular Distortion">>,
       <<"areal_scale", "Areal Scale">>,
       <<"dx_dlam", "Partial derivative dx/dlam">>,
       <<"dx_dphi", "Partial derivative dx/dphi">>,
       <<"dy_dlam", "Partial derivative dy/dlam">>,
       <<"dy_dphi", "Partial derivative dy/dphi">>,
       <<"meridian_convergence", "Meridian Convergence (aka Grid Declination) (in degrees)">>,
       <<"meridian_parallel_angle", "Meridian Parallel Angle (in degrees)">>,
       <<"meridional_scale", "Meridional Scale">>,
       <<"parallel_scale", "Parallel Scale">>,
       <<"tissot_semimajor", "Maximum scale factor (Tissot Semimajor)">>,
       <<"tissot_semiminor", "Minimum scale factor (Tissot Semiminor)">> >>

FactorNames(projection_factors) ==
    {projection_factors[k][1] : k \in 1..Len(projection_factors)}

\* The names an object of each class answers getattr for.
Attributes(obj) ==
    IF obj.tag = "QgsProjectionFactors" THEN FactorNames(PROJECTION_FACTORS_QGIS)
    ELSE IF obj.tag = "pyproj.Factors" THEN FactorNames(PROJECTION_FACTORS_PYPROJ)
    ELSE {}

\* ----------------------------------------------------------- gather_factors
ProgressDivisor == 1000

InGeographicBounds(x, y) == -90 < y /\ y < 90 /\ -180 < x /\ x < 180

\* The test of the loop's first statement, i % int(len(points) / 1000) == 0:
\* the divisor is the same in every iteration, and a divisor of 0 raises in
\* the first one, before anything is appended.
ProgressRaises(points) ==
    Len(points) > 0 /\ Len(points) \div ProgressDivisor = 0

\* crs.factors is called for a point that is there and inside the bounds.
Asked(pointxy) ==
    pointxy # None /\ InGeographicBounds(pointxy.x, pointxy.y)

\* One pass of the loop body.  invalid holds the points at which the engine's
\* factors are not valid.
TheseFactors(pointxy, invalid) ==
    IF pointxy # None
    THEN IF InGeographicBounds(pointxy.x, pointxy.y)
         THEN IF pointxy \in invalid THEN None ELSE QgsFactors(pointxy)
         ELSE None
    ELSE None

\* calls holds the arguments of crs.factors in call order.
gather_factors(points, invalid) ==
    IF ProgressRaises(points)
    THEN [exc |-> "ZeroDivisionError", factors |-> <<>>, calls |-> <<>>]
    ELSE [exc |-> NoExc,
          factors |-> [i \in 1..Len(points) |-> TheseFactors(points[i], invalid)],
          calls |-> SelectSeq(points, Asked)]

\* pyproj edition: no bounds test and no validity test.
TheseFactorsPyproj(point) ==
    IF point # None THEN PyprojFactors(point) ELSE None

IsPoint(point) == point # None

gather_factors_pyproj(points) ==
    IF ProgressRaises(points)
    THEN [exc |-> "ZeroDivisionError", factors |-> <<>>, calls |-> <<>>]
    ELSE [exc |-> NoExc,
          factors |-> [i \in 1..Len(points) |-> TheseFactorsPyproj(points[i])],
          calls |-> SelectSeq(points, IsPoint)]

\* ----------------------------------------------------------- extract_factor
\* getattr(single_projection_factors, factor), then the call when use_proj is
\* off: a QgsProjectionFactors attribute is a method, a pyproj one a float.
ExtractOne(single_projection_factors, factor, use_proj) ==
    IF single_projection_factors = None
    THEN [exc |-> NoExc, value |-> NaN]
    ELSE IF factor \notin Attributes(single_projection_factors)
    THEN [exc |-> "AttributeError", value |-> NaN]
    ELSE LET at == single_projection_factors.at
             attr == IF single_projection_factors.tag = "QgsProjectionFactors"
                     THEN BoundMethod(factor, at)
                     ELSE Float(factor, at)
         IN  IF use_proj THEN [exc |-> NoExc, value |-> attr]
             ELSE IF attr.tag = "method"
             THEN [exc |-> NoExc, value |-> Float(factor, at)]
             ELSE [exc |-> "TypeError", value |-> NaN]

\* The loop: the first entry that raises ends it, otherwise one value per
\* entry is appended.
extract_factor(projection_factors, factor, use_proj) ==
    LET one(i) == ExtractOne(projection_factors[i], factor, use_proj)
        raising == {i \in 1..Len(projection_factors) : one(i).exc # NoExc}
    IN  IF raising # {}
        THEN [exc |-> one(CHOOSE i \in raising : \A j \in raising : i <= j).exc,
              values |-> <<>>]
        ELSE [exc |-> NoExc,
              values |-> [i \in 1..Len(projection_factors) |-> one(i).value]]

\* -------------------------------------------------------------- pack_values
DoubleSize == 8

IsFloat(v) == v.tag \in {"float", "nan"}

\* struct.pack("<n>d", *values): the 8 bytes of each value, in order; a value
\* that is no float is a struct.error.
Byte(v, k) == [tag |-> "byte", of |-> v, k |-> k]

\* The values packed last to first.
pack_values_Reversed(values) ==
    IF \E i \in 1..Len(values) : ~IsFloat(values[i])
    THEN [exc |-> "struct.error", data |-> <<>>]
    ELSE [exc |-> NoExc,
          data |-> [j \in 1..(DoubleSize * Len(values)) |->
                       Byte(values[Len(values) - ((j - 1) \div DoubleSize)],
                            ((j - 1) % DoubleSize) + 1)]]

pack_values(values) ==
    IF \E i \in 1..Len(values) : ~IsFloat(values[i])
    THEN [exc |-> "struct.error", data |-> <<>>]
    ELSE [exc |-> NoExc,
          data |-> [j \in 1..(DoubleSize * Len(values)) |->
                       Byte(values[((j - 1) \div DoubleSize) + 1],
                            ((j - 1) % DoubleSize) + 1)]]

\* ----------------------------------------------------- write_factors_to_tif
NoFile == [tag |-> "nofile"]

EmptyBand == [written |-> FALSE, data |-> <<>>, noData |-> None]

\* writer.createMultiBandRaster(Float64, cols, rows, extent, crs, nBands)
createMultiBandRaster(cols, rows, nBands) ==
    [tag |-> "tif", cols |-> cols, rows |-> rows, nBands |-> nBands,
     bands |-> [k \in 1..nBands |-> EmptyBand]]

ProjectionFactors(use_pyproj) ==
    IF use_pyproj THEN PROJECTION_FACTORS_PYPROJ ELSE PROJECTION_FACTORS_QGIS

\* provider.writeBlock(block, band = band_index), then
\* provider.setNoDataValue(band_index, nan)
WriteBand(tif, band_index, data) ==
    [tif EXCEPT !.bands[band_index] =
        [written |-> TRUE, data |-> data, noData |-> NaN]]

BandOps(band_index) ==
    << [op |-> "writeBlock", band |-> band_index],
       [op |-> "setNoDataValue", band |-> band_index] >>

\* The loop over enumerate(projection_factors.items(), start = 1), from the
\* band_index-th item on; ops collects the provider's calls.
RECURSIVE WriteLoop(_, _, _, _, _, _, _, _)
WriteLoop(projection_factors, factors, cols, rows, use_proj, band_index, tif, ops) ==
    IF band_index > Len(projection_factors)
    THEN [exc |-> NoExc, tif |-> tif, ops |-> ops]
    ELSE LET factor == projection_factors[band_index][1]
             extracted == extract_factor(factors, factor, use_proj)
             packed == pack_values(extracted.values)
         IN  IF extracted.exc # NoExc
             THEN [exc |-> extracted.exc, tif |-> tif, ops |-> ops]
             ELSE IF packed.exc # NoExc
             THEN [exc |-> packed.exc, tif |-> tif, ops |-> ops]
             ELSE IF cols * rows # Len(extracted.values)
             THEN [exc |-> "AssertionError", tif |-> tif, ops |-> ops]
             ELSE WriteLoop(projection_factors, factors, cols, rows, use_proj,
                            band_index + 1,
                            WriteBand(tif, band_index, packed.data),
                            ops \o BandOps(band_index))

\* use_pyproj is the module's USE_PYPROJ, read at import; use_proj is the
\* setting as extract_factor reads it during the call.
write_factors_to_tif(factors, cols, rows, use_pyproj, use_proj) ==
    LET projection_factors == ProjectionFactors(use_pyproj)
    IN  WriteLoop(projection_factors, factors, cols, rows, use_proj, 1,
                  createMultiBandRaster(cols, rows, Len(projection_factors)),
                  <<>>)

\* ----------------------------------------------- create_vrt_for_factors_tif
\* gdal:buildvirtualraster over one TIF: one VRTRasterBand per band of it.
buildvirtualraster(tif) ==
    [tag |-> "vrt", cols |-> tif.cols, rows |-> tif.rows,
     bands |-> [k \in 1..tif.nBands |->
                   [tag |-> "VRTRasterBand", band |-> k, children |-> <<>>]]]

Min(a, b) == IF a < b THEN a ELSE b

Description(text) == [tag |-> "Description", text |-> text]

\* zip over the dictionary itself: the keys become the descriptions.
create_vrt_WithKeys(tif, use_pyproj) ==
    LET projection_factors == ProjectionFactors(use_pyproj)
        vrt0 == buildvirtualraster(tif)
        n == Min(Len(projection_factors), Len(vrt0.bands))
    IN  [vrt0 EXCEPT !.bands =
            [k \in 1..Len(vrt0.bands) |->
                IF k <= n
                THEN [vrt0.bands[k] EXCEPT !.children =
                         Append(@, Description(projection_factors[k][1]))]
                ELSE vrt0.bands[k]]]

\* zip(projection_factors.values(), root.iter("VRTRasterBand")): pairs up to
\* the shorter of the two; each pair adds one Description to its band.
create_vrt_for_factors_tif(tif, use_pyproj) ==
    LET projection_factors == ProjectionFactors(use_pyproj)
        vrt0 == buildvirtualraster(tif)
        n == Min(Len(projection_factors), Len(vrt0.bands))
    IN  [vrt0 EXCEPT !.bands =
            [k \in 1..Len(vrt0.bands) |->
                IF k <= n
                THEN [vrt0.bands[k] EXCEPT !.children =
                         Append(@, Description(projection_factors[k][2]))]
                ELSE vrt0.bands[k]]]

\* ------------------------------------------------------------ call inputs
\* The cells of the test extent, in degrees.
CELL_COORDINATES ==
    << <<-1, 0>>, <<0, 0>>, <<1, 0>>, <<2, 0>>,
       <<-1, -1>>, <<0, -1>>, <<1, -1>>, <<2, -1>>,
       <<-1, -2>>, <<0, -2>>, <<1, -2>>, <<2, -2>> >>

CELL_POINTXYS ==
    [i \in 1..Len(CELL_COORDINATES) |->
        Point(CELL_COORDINATES[i][1], CELL_COORDINATES[i][2])]

\* Points in a projected system: Hamburg in UTM32N and two more.
ProjectedPoints == {Point(565811, 5933977), Point(500000, 0), Point(0, 0)}

PointLists == SeqsUpTo(ProjectedPoints, MaxLen)

\* As many entries as the progress bar's divisor, a third of them None.
CanvasPoints ==
    [i \in 1..ProgressDivisor |->
        IF i % 3 = 0 THEN None
        ELSE IF i % 3 = 1 THEN Point(10, 53) ELSE Point(180, 53)]

GeoPointLists ==
    SeqsUpTo(GeoPoints \cup {None}, MaxLen) \cup {CELL_POINTXYS, CanvasPoints}

InBounds(points) ==
    {p \in Range(points) : p # None /\ InGeographicBounds(p.x, p.y)}

FactorPoints == {Point(10, 53), Point(-1, 0)}

FactorsOfKind(kind) ==
    IF kind = "pyproj" THEN {PyprojFactors(p) : p \in FactorPoints}
    ELSE {QgsFactors(p) : p \in FactorPoints}

Kinds == {"qgis", "pyproj"}

FactorLists(kind) == SeqsUpTo(FactorsOfKind(kind) \cup {None}, MaxLen)

\* The values of a band: factor values of two points, and NaN.
FloatValues ==
    {Float("arealScale", Point(10, 53)), Float("arealScale", Point(-1, 0)), NaN}

\* A list as extract_factor returns it when the setting was changed after the
\* import: a bound method where a float belongs.
MethodValues == <<BoundMethod("arealScale", Point(10, 53))>>

ValueLists == SeqsUpTo(FloatValues, MaxLen) \cup {MethodValues}

\* ------------------------------------------------------------------ state
VARIABLES
    pc,                   \* the statement the program is at
    entry,                \* the function that was called from outside
    USE_PYPROJ,           \* factoring.USE_PYPROJ, set when the module is imported
    useProj,              \* the useProj setting is "true" now
    extent, crs, pixel_size,
    points, cols, rows,
    coordinate_transform, \* what the engine does with each point
    points_gcs,
    invalid,              \* where the engine's factors are not valid
    calls,                \* the points the engine was asked factors for
    factors,
    factor, values,
    data,                 \* the bytes pack_values returned
    tif, ops, vrt,
    exc,                  \* the exception that ended the call
    trace,                \* the functions entered, in order
    layers, messages

vars ==
    <<pc, entry, USE_PYPROJ, useProj, extent, crs, pixel_size, points, cols,
      rows, coordinate_transform, points_gcs, invalid, calls, factors, factor,
      values, data, tif, ops, vrt, exc, trace, layers, messages>>

settingVars == <<USE_PYPROJ, useProj>>
inputVars == <<extent, crs, pixel_size>>
gridVars == <<points, cols, rows>>
transformVars == <<coordinate_transform, points_gcs>>
gatherVars == <<invalid, calls, factors>>
extractVars == <<factor, values, data>>
fileVars == <<tif, ops, vrt>>
shellVars == <<layers, messages>>

Pipeline == {"run", "create_factors_tif"}

Init ==
    /\ pc = "idle"
    /\ entry = "none"
    /\ USE_PYPROJ \in BOOLEAN
    /\ useProj = USE_PYPROJ
    /\ extent = Rect(0, 0, 0, 0)
    /\ crs = CRS_UTM32N
    /\ pixel_size = 1
    /\ points = <<>>
    /\ cols = 0
    /\ rows = 0
    /\ coordinate_transform = <<>>
    /\ points_gcs = <<>>
    /\ invalid = {}
    /\ calls = <<>>
    /\ factors = <<>>
    /\ factor = ""
    /\ values = <<>>
    /\ data = <<>>
    /\ tif = NoFile
    /\ ops = <<>>
    /\ vrt = NoFile
    /\ exc = NoExc
    /\ trace = <<>>
    /\ layers = <<>>
    /\ messages = <<>>

\* The user edits the setting while the plugin is loaded.
ChangeSetting ==
    /\ pc = "idle"
    /\ useProj' = ~useProj
    /\ UNCHANGED <<pc, entry, USE_PYPROJ, inputVars, gridVars, transformVars,
                   gatherVars, extractVars, fileVars, exc, trace, shellVars>>

\* ------------------------------------------------------- calls from outside
SmallGrid(e, s) == Len(GridPoints(e, s)) <= MaxGridPoints

\* A map canvas of 40 x 25 pixels: as many points as the progress bar's divisor.
CanvasExtent == Rect(0, 0, 40, 25)

\* What create_factors_tif is called on: the small grids in every system.
PipelineInputs ==
    {in \in Extents \X StepSizes \X CrsSet : SmallGrid(in[1], in[2])}

\* What run finds on the canvas: the same, or the canvas above at pixel size 1.
CanvasInputs == PipelineInputs \cup {<<CanvasExtent, 1, CRS_UTM32N>>}

\* ProjFactorsRedux.run up to its call of create_factors_tif.
Run ==
    /\ pc = "idle"
    /\ \E in \in CanvasInputs :
          /\ extent' = in[1]
          /\ crs' = in[3]
          /\ pixel_size' = in[2]
          /\ IF in[3].authid = "EPSG:4326"
             THEN /\ messages' = messages \o <<"Info", "Critical">>
                  /\ pc' = "done"
             ELSE /\ messages' = Append(messages, "Info")
                  /\ pc' = "create_factors_tif"
    /\ entry' = "run"
    /\ trace' = Append(trace, "run")
    /\ UNCHANGED <<settingVars, gridVars, transformVars, gatherVars,
                   extractVars, fileVars, exc, layers>>

CallCreateFactorsTif ==
    /\ pc = "idle"
    /\ \E in \in PipelineInputs :
          /\ extent' = in[1]
          /\ crs' = in[3]
          /\ pixel_size' = in[2]
    /\ entry' = "create_factors_tif"
    /\ pc' = "create_factors_tif"
    /\ UNCHANGED <<settingVars, gridVars, transformVars, gatherVars,
                   extractVars, fileVars, exc, trace, shellVars>>

CallCreatePoints ==
    /\ pc = "idle"
    /\ \E e \in Extents, s \in StepSizes :
          /\ extent' = e
          /\ pixel_size' = s
    /\ entry' = "create_points"
    /\ pc' = "create_points"
    /\ UNCHANGED <<settingVars, crs, gridVars, transformVars, gatherVars,
                   extractVars, fileVars, exc, trace, shellVars>>

CallTransformPoints ==
    /\ pc = "idle"
    /\ \E ps \in PointLists : points' = ps
    /\ entry' = "transform_points"
    /\ pc' = "transform_points"
    /\ UNCHANGED <<settingVars, inputVars, cols, rows, transformVars,
                   gatherVars, extractVars, fileVars, exc, trace, shellVars>>

CallGatherFactors ==
    /\ pc = "idle"
    /\ \E ps \in GeoPointLists : points_gcs' = ps
    /\ \E f \in {"gather_factors", "gather_factors_pyproj"} : entry' = f
    /\ pc' = "gather_factors"
    /\ UNCHANGED <<settingVars, inputVars, gridVars, coordinate_transform,
                   gatherVars, extractVars, fileVars, exc, trace, shellVars>>

CallExtractFactor ==
    /\ pc = "idle"
    /\ \E kind \in Kinds :
          /\ \E fs \in FactorLists(kind) : factors' = fs
          /\ \E name \in FactorNames(ProjectionFactors(kind = "pyproj")) :
                factor' = name
    /\ entry' = "extract_factor"
    /\ pc' = "extract_factor"
    /\ UNCHANGED <<settingVars, inputVars, gridVars, transformVars, invalid,
                   calls, values, data, fileVars, exc, trace, shellVars>>

CallWriteFactorsToTif ==
    /\ pc = "idle"
    /\ \E kind \in Kinds : \E fs \in FactorLists(kind) : factors' = fs
    /\ \E c \in 0..MaxLen, r \in 0..MaxLen :
          /\ cols' = c
          /\ rows' = r
    /\ entry' = "write_factors_to_tif"
    /\ pc' = "write_factors_to_tif"
    /\ UNCHANGED <<settingVars, inputVars, points, transformVars, invalid,
                   calls, extractVars, fileVars, exc, trace, shellVars>>

CallPackValues ==
    /\ pc = "idle"
    /\ \E vs \in ValueLists : values' = vs
    /\ entry' = "pack_values"
    /\ pc' = "pack_values"
    /\ UNCHANGED <<settingVars, inputVars, gridVars, transformVars, gatherVars,
                   factor, data, fileVars, exc, trace, shellVars>>

\* create_vrt_for_factors_tif on the file a finished call has written.
CallCreateVrt ==
    /\ pc = "done"
    /\ entry \in {"write_factors_to_tif", "create_factors_tif"}
    /\ tif # NoFile
    /\ entry' = "create_vrt_for_factors_tif"
    /\ pc' = "create_vrt"
    /\ UNCHANGED <<settingVars, inputVars, gridVars, transformVars,
                   gatherVars, extractVars, fileVars, exc, trace, shellVars>>

\* ---------------------------------------------------------------- the code
Raise(e) ==
    /\ exc' = e
    /\ pc' = "raised"

\* create_factors_tif, its first statement.
CreateFactorsTif ==
    /\ pc = "create_factors_tif"
    /\ trace' = Append(trace, "create_factors_tif")
    /\ IF crs.authid = "EPSG:4326"
       THEN Raise("GeographicCrsError")
       ELSE /\ pc' = "create_points"
            /\ exc' = exc
    /\ UNCHANGED <<entry, settingVars, inputVars, gridVars, transformVars,
                   gatherVars, extractVars, fileVars, shellVars>>

\* create_points; in create_factors_tif the test crs != gcs_crs follows it.
CreatePoints ==
    /\ pc = "create_points"
    /\ trace' = Append(trace, "create_points")
    /\ LET r == create_points(extent, pixel_size)
       IN  IF r.exc # NoExc
           THEN /\ Raise(r.exc)
                /\ UNCHANGED <<gridVars, points_gcs>>
           ELSE /\ points' = r.points
                /\ cols' = r.cols
                /\ rows' = r.rows
                /\ exc' = exc
                /\ IF entry = "create_points"
                   THEN /\ pc' = "done"
                        /\ UNCHANGED points_gcs
                   ELSE IF crs # CRS_WGS84
                   THEN /\ pc' = "transform_points"
                        /\ UNCHANGED points_gcs
                   ELSE /\ pc' = "gather_factors"
                        /\ points_gcs' = r.points
    /\ UNCHANGED <<entry, settingVars, inputVars, coordinate_transform,
                   gatherVars, extractVars, fileVars, shellVars>>

TransformPoints ==
    /\ pc = "transform_points"
    /\ trace' = Append(trace, "transform_points")
    /\ \E ct \in Transforms(points) :
          /\ coordinate_transform' = ct
          /\ points_gcs' = transform_points(points, ct)
    /\ pc' = IF entry = "transform_points" THEN "done" ELSE "gather_factors"
    /\ UNCHANGED <<entry, settingVars, inputVars, gridVars, gatherVars,
                   extractVars, fileVars, exc, shellVars>>

\* gather_factors, or gather_factors_pyproj where create_factors_tif finds
\* USE_PYPROJ set.
GathersWithPyproj ==
    IF entry \in Pipeline THEN USE_PYPROJ ELSE entry = "gather_factors_pyproj"

GatherFactors ==
    /\ pc = "gather_factors"
    /\ trace' = Append(trace, IF GathersWithPyproj THEN "gather_factors_pyproj"
                              ELSE "gather_factors")
    /\ \E inv \in (IF GathersWithPyproj THEN {{}} ELSE SUBSET InBounds(points_gcs)) :
          LET r == IF GathersWithPyproj THEN gather_factors_pyproj(points_gcs)
                   ELSE gather_factors(points_gcs, inv)
          IN  /\ invalid' = inv
              /\ calls' = r.calls
              /\ IF r.exc # NoExc
                 THEN /\ Raise(r.exc)
                      /\ UNCHANGED factors
                 ELSE /\ factors' = r.factors
                      /\ exc' = exc
                      /\ pc' = IF entry \in Pipeline THEN "write_factors_to_tif"
                               ELSE "done"
    /\ UNCHANGED <<entry, settingVars, inputVars, gridVars, transformVars,
                   extractVars, fileVars, shellVars>>

ExtractFactor ==
    /\ pc = "extract_factor"
    /\ trace' = Append(trace, "extract_factor")
    /\ LET r == extract_factor(factors, factor, useProj)
       IN  IF r.exc # NoExc
           THEN /\ Raise(r.exc)
                /\ UNCHANGED values
           ELSE /\ values' = r.values
                /\ exc' = exc
                /\ pc' = "done"
    /\ UNCHANGED <<entry, settingVars, inputVars, gridVars, transformVars,
                   gatherVars, factor, data, fileVars, shellVars>>

PackValues ==
    /\ pc = "pack_values"
    /\ trace' = Append(trace, "pack_values")
    /\ LET r == pack_values(values)
       IN  IF r.exc # NoExc
           THEN /\ Raise(r.exc)
                /\ UNCHANGED data
           ELSE /\ data' = r.data
                /\ exc' = exc
                /\ pc' = "done"
    /\ UNCHANGED <<entry, settingVars, inputVars, gridVars, transformVars,
                   gatherVars, factor, values, fileVars, shellVars>>

\* write_factors_to_tif; create_factors_tif returns the path after it, and
\* run goes on to create_vrt_for_factors_tif.
WriteFactorsToTif ==
    /\ pc = "write_factors_to_tif"
    /\ trace' = Append(trace, "write_factors_to_tif")
    /\ LET r == write_factors_to_tif(factors, cols, rows, USE_PYPROJ, useProj)
       IN  /\ tif' = r.tif
           /\ ops' = r.ops
           /\ IF r.exc # NoExc
              THEN Raise(r.exc)
              ELSE /\ exc' = exc
                   /\ pc' = IF entry = "run" THEN "create_vrt" ELSE "done"
    /\ UNCHANGED <<entry, settingVars, inputVars, gridVars, transformVars,
                   gatherVars, extractVars, vrt, shellVars>>

CreateVrt ==
    /\ pc = "create_vrt"
    /\ trace' = Append(trace, "create_vrt_for_factors_tif")
    /\ vrt' = create_vrt_for_factors_tif(tif, USE_PYPROJ)
    /\ pc' = IF entry = "run" THEN "add_layer" ELSE "done"
    /\ UNCHANGED <<entry, settingVars, inputVars, gridVars, transformVars,
                   gatherVars, extractVars, tif, ops, exc, shellVars>>

\* The rest of run: the success message and the layer built from the VRT.
AddLayer ==
    /\ pc = "add_layer"
    /\ messages' = Append(messages, "Success")
    /\ layers' = Append(layers, vrt)
    /\ pc' = "done"
    /\ UNCHANGED <<entry, settingVars, inputVars, gridVars, transformVars,
                   gatherVars, extractVars, fileVars, exc, trace>>

Next ==
    \/ ChangeSetting
    \/ Run
    \/ CallCreateFactorsTif
    \/ CallCreatePoints
    \/ CallTransformPoints
    \/ CallGatherFactors
    \/ CallExtractFactor
    \/ CallWriteFactorsToTif
    \/ CallPackValues
    \/ CallCreateVrt
    \/ CreateFactorsTif
    \/ CreatePoints
    \/ TransformPoints
    \/ GatherFactors
    \/ ExtractFactor
    \/ PackValues
    \/ WriteFactorsToTif
    \/ CreateVrt
    \/ AddLayer

Spec == Init /\ [][Next]_vars

\* ----------------------------------------------------------------- claims
Called(f) == \E i \in 1..Len(trace) : trace[i] = f

LastCalled == IF trace = <<>> THEN "none" ELSE trace[Len(trace)]

RaisedIn(f) == pc = "raised" /\ LastCalled = f

CreatePointsReturned == Called("create_points") /\ ~RaisedIn("create_points")

\* struct.unpack of packed doubles: the value each group of 8 bytes encodes.
Unpacked(bytes) ==
    [i \in 1..(Len(bytes) \div DoubleSize) |-> bytes[DoubleSize * (i - 1) + 1].of]

\* Extent edges and the step in the unit of point coordinates, u/2.
XMin2 == 2 * extent.xMin
XMax2 == 2 * extent.xMax
YMin2 == 2 * extent.yMin
YMax2 == 2 * extent.yMax
Half == pixel_size
Step2 == 2 * pixel_size

\* C1: create_points returns normally for every extent and every step size
\* S > 0 (its assertion rows * cols == len(points) never fails), with exactly
\* round(W/S) * round(H/S) points.
C1_PointCount ==
    Called("create_points") =>
        /\ ~RaisedIn("create_points")
        /\ Len(points) = PyRound(Width(extent), pixel_size)
                           * PyRound(Height(extent), pixel_size)

\* C2: the list create_points returns is row-major, top to bottom and left to
\* right: of two consecutive points the second is one step to the right in
\* the same row, or it is the leftmost point (xMin + S/2) of the row one step
\* below while the first is a rightmost point; the first point of the list
\* has the maximum y and the minimum x.
C2_RowMajor ==
    CreatePointsReturned =>
        /\ \A k \in 1..(Len(points) - 1) :
              LET p == points[k]
                  q == points[k + 1]
              IN  \/ q.y = p.y /\ q.x = p.x + Step2
                  \/ /\ q.y = p.y - Step2
                     /\ q.x = XMin2 + Half
                     /\ \A r \in 1..Len(points) : points[r].x <= p.x
        /\ Len(points) > 0 =>
              /\ points[1].x = XMin2 + Half
              /\ \A r \in 1..Len(points) :
                    points[r].y <= points[1].y /\ points[r].x >= points[1].x

\* The grid the tests expect for EXTENT and CELLSIZE, in units of u/2.
C2_Witness ==
    /\ entry = "create_points"
    /\ pc = "done"
    /\ extent = EXTENT
    /\ pixel_size = CELLSIZE
    /\ points = [i \in 1..Len(CELL_COORDINATES) |->
                    Point(4 * CELL_COORDINATES[i][1], 4 * CELL_COORDINATES[i][2])]

C4_TransformKeepsIndices ==
    Called("transform_points") =>
        /\ ~RaisedIn("transform_points")
        /\ Len(points_gcs) = Len(points)
        /\ \A i \in 1..Len(points) :
              IF coordinate_transform[points[i]] = QgsCsException
              THEN points_gcs[i] = None
              ELSE points_gcs[i] # None
                   /\ points_gcs[i] = coordinate_transform[points[i]]

\* A failure between two successes, on three different points.
C4_Witness ==
    /\ entry = "transform_points"
    /\ pc = "done"
    /\ Len(points) = 3
    /\ points[1] # points[3]
    /\ points_gcs[1] # None
    /\ points_gcs[2] = None
    /\ points_gcs[3] # None
    /\ points_gcs[1] # points_gcs[3]

\* The factor entries are of the class the loaded module computes.
OfLoadedClass(fs) ==
    \A i \in 1..Len(fs) :
        fs[i] # None =>
            fs[i].tag = (IF USE_PYPROJ THEN "pyproj.Factors" ELSE "QgsProjectionFactors")

\* C5: extract_factor returns a list as long as its input, in which entry i
\* is NaN exactly when input entry i is None and is the named factor's value
\* of entry i otherwise.  Stated for the entries the plugin itself computes.
C5_ExtractFactor ==
    (entry = "extract_factor" /\ Called("extract_factor") /\ OfLoadedClass(factors)) =>
        /\ pc = "done"
        /\ Len(values) = Len(factors)
        /\ \A i \in 1..Len(factors) :
              IF factors[i] = None
              THEN values[i] = NaN
              ELSE values[i] = Float(factor, factors[i].at)

\* C6: gather_factors returns one entry per input point, in input order;
\* entry i is None exactly when point i is None, or lies not strictly inside
\* -180 < x < 180 and -90 < y < 90, or the engine's result for it is not valid;
\* the engine is asked for exactly the points that are there and inside.
C6_GatherFactors ==
    (entry = "gather_factors" /\ Called("gather_factors")) =>
        /\ pc = "done"
        /\ Len(factors) = Len(points_gcs)
        /\ \A i \in 1..Len(points_gcs) :
              LET p == points_gcs[i]
                  outside == IF p = None THEN TRUE
                             ELSE ~(-180 < p.x /\ p.x < 180 /\ -90 < p.y /\ p.y < 90)
              IN  /\ (factors[i] = None) <=> (outside \/ p \in invalid)
                  /\ factors[i] # None => factors[i] = QgsFactors(p)
                  /\ outside => \A c \in 1..Len(calls) : calls[c] # p

\* C7: for every geographic CRS, create_factors_tif raises GeographicCrsError
\* before it generates a grid point, transforms a point or creates a file.
C7_GeographicRejected ==
    (Called("create_factors_tif") /\ crs.isGeographic) =>
        /\ pc = "raised"
        /\ exc = "GeographicCrsError"
        /\ ~Called("create_points")
        /\ ~Called("transform_points")
        /\ tif = NoFile

\* C8: whenever create_points returns, create_factors_tif runs to its end
\* with points, points_gcs, factors and every band's values of length
\* rows * cols, and a grid point that could not be transformed or has no
\* factors is NaN at its own index in every band, the other values being
\* those of their own grid points.
C8_AbsencePropagates ==
    (Called("create_factors_tif") /\ CreatePointsReturned /\ pc \in {"done", "raised"}) =>
        /\ pc = "done"
        /\ Len(points) = rows * cols
        /\ Len(points_gcs) = rows * cols
        /\ Len(factors) = rows * cols
        /\ \A k \in 1..tif.nBands :
              LET band_values == Unpacked(tif.bands[k].data)
              IN  /\ Len(band_values) = rows * cols
                  /\ \A i \in 1..(rows * cols) :
                        IF points_gcs[i] = None \/ factors[i] = None
                        THEN band_values[i] = NaN
                        ELSE band_values[i].tag = "float"
                             /\ band_values[i].at = points_gcs[i]

\* C9: for every band index k from 1 to the number of named factors, the one
\* description of the k-th VRTRasterBand is the description text of the factor
\* whose values write_factors_to_tif wrote into band k of the TIF.
C9_BandNames ==
    vrt # NoFile =>
        LET projection_factors == ProjectionFactors(USE_PYPROJ)
        IN  /\ Len(vrt.bands) = Len(projection_factors)
            /\ tif.nBands = Len(projection_factors)
            /\ \A k \in 1..Len(vrt.bands) :
                  /\ vrt.bands[k].band = k
                  /\ Len(vrt.bands[k].children) = 1
                  /\ tif.bands[k].written
                  /\ \A j \in 1..Len(projection_factors) :
                        (\E i \in 1..Len(factors) :
                            /\ factors[i] # None
                            /\ Unpacked(tif.bands[k].data)[i]
                                  = Float(projection_factors[j][1], factors[i].at))
                        => vrt.bands[k].children[1]
                              = Description(projection_factors[j][2])

\* A VRT over a TIF whose bands hold the values of two points.
C9_Witness ==
    /\ vrt # NoFile
    /\ Len(factors) >= 2
    /\ \A i \in 1..Len(factors) : factors[i] # None
    /\ \A k \in 1..tif.nBands :
          /\ Len(Unpacked(tif.bands[k].data)) = Len(factors)
          /\ Unpacked(tif.bands[k].data)[1].tag = "float"

\* C10: gather_factors and gather_factors_pyproj return normally for a point
\* list of any length, with as many entries as points.
C10_GatherReturns ==
    (Called("gather_factors") \/ Called("gather_factors_pyproj")) =>
        /\ ~RaisedIn("gather_factors")
        /\ ~RaisedIn("gather_factors_pyproj")
        /\ Len(factors) = Len(points_gcs)

\* C11: where create_points returns, cols = round(W/S) and rows = round(H/S),
\* and the returned points are exactly rows runs of equal y, one after the
\* other from the top down, each run holding exactly cols points.
C11_GridShape ==
    CreatePointsReturned =>
        /\ cols = PyRound(Width(extent), pixel_size)
        /\ rows = PyRound(Height(extent), pixel_size)
        /\ Len(points) = rows * cols
        /\ \A k \in 1..Len(points) :
              points[k].y = points[((k - 1) \div cols) * cols + 1].y
        /\ cols > 0 =>
              \A r \in 1..(rows - 1) :
                  points[r * cols + 1].y < points[(r - 1) * cols + 1].y

\* A returned grid that is wider than high, with more than one run.
C11_Witness ==
    /\ entry = "create_points"
    /\ pc = "done"
    /\ cols > rows
    /\ rows > 1
    /\ Len(points) = rows * cols
    /\ points[1].y # points[Len(points)].y

\* The number of named factors in either dictionary.
NumberOfFactors == 12

\* C12: write_factors_to_tif, called with cols * rows factor entries, creates
\* the raster with as many bands as there are named factors (12) and writes
\* bands 1, 2, ..., 12 each exactly once, in increasing order and in the order
\* of the factor dictionary, each with a block of cols x rows doubles, setting
\* each band's no-data value to NaN right after its block; it writes no other
\* band.
C12_BandsWritten ==
    (Called("write_factors_to_tif") /\ rows * cols = Len(factors)
                                    /\ OfLoadedClass(factors)) =>
        LET projection_factors == ProjectionFactors(USE_PYPROJ)
        IN  /\ ~RaisedIn("write_factors_to_tif")
            /\ Len(projection_factors) = NumberOfFactors
            /\ tif.nBands = NumberOfFactors
            /\ ops = [j \in 1..(2 * NumberOfFactors) |->
                         [op |-> IF j % 2 = 1 THEN "writeBlock" ELSE "setNoDataValue",
                          band |-> (j + 1) \div 2]]
            /\ \A k \in 1..NumberOfFactors :
                  /\ tif.bands[k].written
                  /\ tif.bands[k].noData = NaN
                  /\ Len(tif.bands[k].data) = DoubleSize * cols * rows
                  /\ \A i \in 1..Len(factors) :
                        factors[i] # None =>
                            Unpacked(tif.bands[k].data)[i]
                                = Float(projection_factors[k][1], factors[i].at)

\* C13: on a canvas in EPSG:4326, run pushes a Critical message and returns
\* without calling create_factors_tif or create_vrt_for_factors_tif and
\* without adding a layer, so that GeographicCrsError never escapes from run;
\* on any other canvas run calls create_factors_tif, then
\* create_vrt_for_factors_tif on the file it returned, and after both adds
\* exactly one layer, built from the VRT.
C13_RunShell ==
    entry = "run" =>
        /\ exc # "GeographicCrsError"
        /\ IF crs.authid = "EPSG:4326"
           THEN /\ pc = "done"
                /\ messages = <<"Info", "Critical">>
                /\ trace = <<"run">>
                /\ layers = <<>>
                /\ tif = NoFile
                /\ vrt = NoFile
           ELSE /\ pc # "raised"
                /\ pc = "create_factors_tif" \/ Called("create_factors_tif")
                /\ Called("create_vrt_for_factors_tif") =>
                      /\ \E i, j \in 1..Len(trace) :
                            /\ i < j
                            /\ trace[i] = "create_factors_tif"
                            /\ trace[j] = "create_vrt_for_factors_tif"
                      /\ tif # NoFile
                      /\ vrt = create_vrt_for_factors_tif(tif, USE_PYPROJ)
                /\ layers # <<>> =>
                      /\ Called("create_vrt_for_factors_tif")
                      /\ layers = <<vrt>>
                /\ pc = "done" => Len(layers) = 1

\* What the calculator that was not called returns for the same points.
OtherCalculator ==
    IF entry = "gather_factors" THEN gather_factors_pyproj(points_gcs)
    ELSE gather_factors(points_gcs, invalid)

\* C14: for the same list of geographic points, gather_factors and
\* gather_factors_pyproj return lists of equal length with None at exactly the
\* same indices; a point outside -180 < x < 180, -90 < y < 90 is None in both.
C14_SameAbsences ==
    (entry \in {"gather_factors", "gather_factors_pyproj"} /\ pc = "done") =>
        /\ OtherCalculator.exc = NoExc
        /\ Len(OtherCalculator.factors) = Len(factors)
        /\ \A i \in 1..Len(factors) :
              /\ (factors[i] = None) <=> (OtherCalculator.factors[i] = None)
              /\ (points_gcs[i] # None /\ ~Asked(points_gcs[i])) =>
                    factors[i] = None

\* struct.unpack of n doubles: group i of 8 bytes gives back a value when it
\* is the 8 bytes of that value in their order, and something else otherwise.
DoubleOf(group) ==
    IF \A j \in 1..DoubleSize : group[j].k = j /\ group[j].of = group[1].of
    THEN group[1].of
    ELSE [tag |-> "other"]

struct_unpack(bytes) ==
    [i \in 1..(Len(bytes) \div DoubleSize) |->
        DoubleOf(SubSeq(bytes, DoubleSize * (i - 1) + 1, DoubleSize * i))]

\* C15: for every list of n float values, pack_values returns exactly 8 * n
\* bytes of which the k-th group of 8 encodes the k-th value: unpacking gives
\* back the input list, NaN entries at their own index; the empty list gives
\* the empty bytes object.
C15_PackValues ==
    (entry = "pack_values" /\ Called("pack_values")
                           /\ \A i \in 1..Len(values) : IsFloat(values[i])) =>
        /\ pc = "done"
        /\ Len(data) = DoubleSize * Len(values)
        /\ struct_unpack(data) = values
        /\ \A i \in 1..Len(values) :
              (values[i] = NaN) <=> (struct_unpack(data)[i] = NaN)
        /\ values = <<>> => data = <<>>

\* Three values packed, a NaN between two different floats.
C15_Witness ==
    /\ entry = "pack_values"
    /\ pc = "done"
    /\ Len(values) = 3
    /\ values[1].tag = "float"
    /\ values[2] = NaN
    /\ values[3].tag = "float"
    /\ values[1] # values[3]
    /\ Len(data) = 3 * DoubleSize

=============================================================================
